---- MODULE Spec2Model ----
(***************************************************************************)
(* A model of scripts/migrate/patch_workflow_use_external_js.py: the       *)
(* one-pass patcher that replaces the inline script of every mapped n8n    *)
(* Code node by a wrapper that requires an external JS file.               *)
(*                                                                         *)
(* Strings that the program takes apart or puts together (file names,      *)
(* node ids, paths, the wrapper) are sequences of characters or of         *)
(* literal fragments; strings it only compares (node types, key names)     *)
(* are TLA+ strings.  A JSON object is a function from its keys, so that   *)
(* DOMAIN tells which keys are present.                                    *)
(***************************************************************************)
EXTENDS Naturals, Sequences, FiniteSets, TLC

VARIABLES
    argv,           \* sys.argv of the running process
    fs,             \* regular files on disk: path -> content
    dirs,           \* directories on disk: path -> listing (names, in listing order)
    pc,             \* position of the process in the script
    run,            \* 1: first invocation, 2: invocation on the first one's output
    wf_path,        \* line 11
    js_dir,         \* line 11
    workflow_slug,  \* line 11
    mapping,        \* line 19: node id -> js file name
    data,           \* line 32: the parsed document
    wi,             \* line 40: index of the workflow the loop is at
    ni,             \* line 42: index of the node the loop is at
    total_patched,  \* line 37
    total_skipped,  \* line 38
    stdout,         \* lines printed to standard output
    stderr,         \* lines printed to the error stream
    exit_code,      \* <<status>> once the process has ended, <<>> while it runs
    opened,         \* history: <<path, mode>> of every open() of this invocation
    fs0,            \* history: the files as they were when this invocation started
    dirs0,          \* history: the directories as they were at that time
    prev            \* history: what the first invocation left (output, counters)

vars == <<argv, fs, dirs, pc, run, wf_path, js_dir, workflow_slug, mapping, data,
          wi, ni, total_patched, total_skipped, stdout, stderr, exit_code,
          opened, fs0, dirs0, prev>>

----------------------------------------------------------------------------
(* Bounds of the model *)

MaxNodes == 2
MaxWorkflows == 2
MaxFiles == 3

----------------------------------------------------------------------------
(* Program constants *)

ArgCount == 4
UuidLen == 36
CodeNodeType == "n8n-nodes-base.code"
HexOrHyphen ==
    {"0", "1", "2", "3", "4", "5", "6", "7", "8", "9",
     "a", "b", "c", "d", "e", "f", "A", "B", "C", "D", "E", "F", "-"}
JsExt == <<".", "j", "s">>
TmpDir == <<"tmp">>
NoValue == <<>>

----------------------------------------------------------------------------
(* Python and library semantics the script relies on *)

\* os.path.join(a, b): an absolute second component discards the first.
PathJoin(a, b) ==
    IF b # <<>> /\ Head(b) = "/" THEN b ELSE a \o <<"/">> \o b

EndsWith(s, suffix) ==
    /\ Len(s) >= Len(suffix)
    /\ SubSeq(s, Len(s) - Len(suffix) + 1, Len(s)) = suffix

\* fnmatch of a directory entry against "*.js" as glob applies it: the
\* pattern does not start with a dot, so hidden entries are left out.
GlobMatchesStarJs(name) ==
    /\ name # <<>>
    /\ Head(name) # "."
    /\ EndsWith(name, JsExt)

\* glob.glob(os.path.join(js_dir, "*.js")), as the base names of its result,
\* in the order the directory lists them.  (A directory path holding glob
\* wildcards of its own is outside the model.)
GlobStarJs(dir) ==
    IF dir \in DOMAIN dirs THEN SelectSeq(dirs[dir], GlobMatchesStarJs) ELSE <<>>

\* Where "$" matches: at the end, and before a newline that ends the string.
DollarPositions(base) ==
    {Len(base)} \cup
    (IF base # <<>> /\ base[Len(base)] = "\n" THEN {Len(base) - 1} ELSE {})

\* re.search(r"__([0-9a-fA-F-]{36})\.js$", base): the start positions at
\* which the pattern matches.
MatchStarts(base) ==
    {s \in 1..Len(base) :
        /\ s + 1 + UuidLen + 3 \in DollarPositions(base)
        /\ base[s] = "_"
        /\ base[s + 1] = "_"
        /\ \A k \in 1..UuidLen : base[s + 1 + k] \in HexOrHyphen
        /\ SubSeq(base, s + 2 + UuidLen, s + 1 + UuidLen + 3) = JsExt}

SetMin(S) == CHOOSE x \in S : \A y \in S : x <= y

\* m.group(1) of the leftmost match
MatchGroup1(base) ==
    LET s == SetMin(MatchStarts(base))
    IN  SubSeq(base, s + 2, s + 1 + UuidLen)

\* d[k] = v on a dict
DictSet(d, k, v) ==
    [x \in DOMAIN d \cup {k} |-> IF x = k THEN v ELSE d[x]]

\* BuildMapping changed: the first file of a node id is kept.
RECURSIVE BuildMappingFirstWins(_, _)
BuildMappingFirstWins(names, m) ==
    IF names = <<>> THEN m
    ELSE LET base == Head(names)
         IN  IF MatchStarts(base) = {} \/ MatchGroup1(base) \in DOMAIN m
             THEN BuildMappingFirstWins(Tail(names), m)
             ELSE BuildMappingFirstWins(Tail(names),
                                        DictSet(m, MatchGroup1(base), base))

\* lines 19-26: the mapping after the loop has processed `names` in order
RECURSIVE BuildMapping(_, _)
BuildMapping(names, m) ==
    IF names = <<>> THEN m
    ELSE LET base == Head(names)
         IN  IF MatchStarts(base) = {}
             THEN BuildMapping(Tail(names), m)
             ELSE BuildMapping(Tail(names), DictSet(m, MatchGroup1(base), base))

\* The backquote character, which a TLA+ string cannot hold.
Backtick == "<backquote>"

\* lines 54-58: the wrapper, as the f-string puts it together
Wrapper(slug, fn) ==
    <<"try{const fn=require('/data/js/workflows/">> \o slug \o <<"/">> \o fn
    \o <<"');return await fn({$input,$json,$items,$node,$env,helpers});}">>
    \o <<"catch(e){e.message=", Backtick, "[extjs:">> \o slug \o <<"/">> \o fn
    \o <<"] ${e.message}", Backtick, ";throw e;}">>

\* line 62
OutPath(slug) == PathJoin(TmpDir, slug \o <<".raw.externalized.json">>)

----------------------------------------------------------------------------
(* JSON values, json.load and json.dump *)

\* JSON null (Python None), told apart from every object of the model
JsonNull == [json_null |-> TRUE]

IsDict(v) == v # JsonNull

\* The root and the workflows carry their Python type, on which the script
\* branches (line 35) or trips (line 41): a dict holds its members as a
\* function from its keys.
Dict(obj) == [kind |-> "dict", value |-> obj]
List(items) == [kind |-> "list", value |-> items]
Number == [kind |-> "number", value |-> <<>>]

\* A file that holds no JSON
Garbage == [kind |-> "garbage"]

\* A file that holds the document `doc`, written with the given indentation
JsonText(doc, indent) == [kind |-> "json", indent |-> indent, doc |-> doc]

IsJson(content) == content.kind = "json"

\* line 32: json.load, where it succeeds
JsonLoad(content) == content.doc

\* line 65: json.dump(data, f, indent=2)
JsonDump(doc) == JsonText(doc, 2)

\* line 35: workflows = data if isinstance(data, list) else [data]
Workflows(d) == IF d.kind = "list" THEN d.value ELSE <<d>>

\* line 41: wf.get("nodes", []), which a dict alone provides
HasGet(w) == w.kind = "dict"
Nodes(w) == IF "nodes" \in DOMAIN w.value THEN w.value.nodes ELSE <<>>

\* lines 43, 45: n.get(key), with NoValue for None
Get(n, key) == IF key \in DOMAIN n THEN n[key] ELSE NoValue

\* line 43: n.get("type") != "n8n-nodes-base.code"
IsCodeNode(n) == Get(n, "type") = CodeNodeType

\* line 46: not nid
NoId(n) == IF "id" \in DOMAIN n THEN n.id = <<>> ELSE TRUE

\* lines 49-50: fn = mapping.get(nid); not fn
NoFile(m, nid) == IF nid \in DOMAIN m THEN m[nid] = <<>> ELSE TRUE

\* line 59: whether n.setdefault("parameters", {})["jsCode"] = ... raises
SetCodeRaises(n) == "parameters" \in DOMAIN n /\ ~IsDict(n.parameters)

\* SetCode changed: the code field is set only where there is none
\* (setdefault on "jsCode" as well).
SetCodeIfAbsent(n, wrapper) ==
    IF "parameters" \in DOMAIN n
    THEN IF "jsCode" \in DOMAIN n.parameters THEN n
         ELSE [n EXCEPT !.parameters = DictSet(n.parameters, "jsCode", wrapper)]
    ELSE DictSet(n, "parameters", [jsCode |-> wrapper])

\* SetCode changed: the node gets a parameters dict of its own
\* (n["parameters"] = {"jsCode": wrapper}).
SetCodeFreshParameters(n, wrapper) ==
    DictSet(n, "parameters", [jsCode |-> wrapper])

\* SetCode changed: the wrapper is put in front of the code that is there.
SetCodeKeepsOld(n, wrapper) ==
    IF "parameters" \in DOMAIN n
    THEN [n EXCEPT !.parameters =
            DictSet(n.parameters, "jsCode",
                    wrapper \o Get(n.parameters, "jsCode"))]
    ELSE DictSet(n, "parameters", [jsCode |-> wrapper])

\* line 59: n.setdefault("parameters", {})["jsCode"] = wrapper
SetCode(n, wrapper) ==
    IF "parameters" \in DOMAIN n
    THEN [n EXCEPT !.parameters = DictSet(n.parameters, "jsCode", wrapper)]
    ELSE DictSet(n, "parameters", [jsCode |-> wrapper])

\* The document with node j of workflow i replaced: the loop mutates the
\* node where it sits in `data`.
ReplaceNode(d, i, j, n) ==
    IF d.kind = "list"
    THEN [d EXCEPT !.value[i].value.nodes[j] = n]
    ELSE [d EXCEPT !.value.nodes[j] = n]

----------------------------------------------------------------------------
(* The inputs of the model *)

\* An identifier shaped like a UUID, every digit being c
Uuid(c) == [i \in 1..UuidLen |-> IF i \in {9, 14, 19, 24} THEN "-" ELSE c]

JsName(prefix, token) == prefix \o <<"_", "_">> \o token \o JsExt

FileA == JsName(<<"a">>, Uuid("1"))
FileB == JsName(<<"b">>, Uuid("1"))
FileUpper == JsName(<<>>, Uuid("A"))
FileHidden == JsName(<<".", "h">>, Uuid("2"))
FileShort == JsName(<<"c">>, Tail(Uuid("3")))
FileNonHex == JsName(<<"d">>, Uuid("g"))
FileOneUnderscore == <<"e", "-", "_">> \o Uuid("4") \o JsExt
FileJsx == JsName(<<"f">>, Uuid("5")) \o <<"x">>
FileNewline == JsName(<<"g">>, Uuid("6")) \o <<"\n">>
FileReadme == <<"r", "e", "a", "d", "m", "e">> \o JsExt
FileThreeUnderscores == JsName(<<"_">>, Uuid("7"))

FileNames ==
    {FileA, FileB, FileUpper, FileHidden, FileShort, FileNonHex,
     FileOneUnderscore, FileJsx, FileNewline, FileReadme, FileThreeUnderscores}

Range(s) == {s[i] : i \in DOMAIN s}

\* The sequences of at most k different elements of S
RECURSIVE DistinctSeqs(_, _)
DistinctSeqs(S, k) ==
    IF k = 0 THEN {<<>>}
    ELSE LET shorter == DistinctSeqs(S, k - 1)
             longer == {Append(s, x) : s \in shorter, x \in S}
         IN  shorter \cup {s \in longer : Cardinality(Range(s)) = Len(s)}

OldCode == <<"return items;">>

NodeSet ==
    [type |-> "n8n-nodes-base.set", id |-> Uuid("1"), name |-> "Set",
     parameters |-> [jsCode |-> OldCode]]
NodeBare == [type |-> CodeNodeType, id |-> Uuid("1"), name |-> "Bare"]
NodeOld ==
    [type |-> CodeNodeType, id |-> Uuid("1"), name |-> "Old",
     parameters |-> [jsCode |-> OldCode, mode |-> "runOnceForAllItems"]]
NodeUpper ==
    [type |-> CodeNodeType, id |-> Uuid("A"), name |-> "Upper",
     parameters |-> [mode |-> "runOnceForEachItem"]]
NodeNoId ==
    [type |-> CodeNodeType, name |-> "NoId", parameters |-> [jsCode |-> OldCode]]
NodeEmptyId ==
    [type |-> CodeNodeType, id |-> <<>>, name |-> "EmptyId",
     parameters |-> [jsCode |-> OldCode]]
NodeNoType ==
    [id |-> Uuid("1"), name |-> "NoType", parameters |-> [jsCode |-> OldCode]]
NodeNullParams ==
    [type |-> CodeNodeType, id |-> Uuid("1"), name |-> "Null",
     parameters |-> JsonNull]

NodeKinds ==
    {NodeSet, NodeBare, NodeOld, NodeUpper, NodeNoId, NodeEmptyId, NodeNoType,
     NodeNullParams}

\* The sequences of exactly k elements of S
SeqsOfLen(S, k) == [1..k -> S]

Workflow(nodes) == Dict([name |-> "wf", nodes |-> nodes])
WorkflowNoNodes == Dict([name |-> "wf"])

WorkflowsOf(k) == {Workflow(ns) : ns \in SeqsOfLen(NodeKinds, k)}

\* The sequences of at most w workflows that hold at most n nodes together
RECURSIVE WorkflowSeqs(_, _)
WorkflowSeqs(w, n) ==
    IF w = 0 THEN {<<>>}
    ELSE {<<>>} \cup
         UNION {{<<first>> \o rest : first \in WorkflowsOf(k),
                                     rest \in WorkflowSeqs(w - 1, n - k)} :
                k \in 0..n}

Docs ==
    {List(ws) : ws \in WorkflowSeqs(MaxWorkflows, MaxNodes)}
    \cup UNION {WorkflowsOf(k) : k \in 0..MaxNodes}
    \cup {WorkflowNoNodes}

ProgName == <<"patch_workflow_use_external_js.py">>
PlainPath == <<"wf.json">>
MissingPath == <<"missing.json">>
JsDirPath == <<"js">>
MissingDir == <<"nodir">>
Slugs == {<<"s">>, <<"t">>}

OutName(slug) == slug \o <<".raw.externalized.json">>

\* A document that takes the loop through every branch that does not raise
TourDoc ==
    List(<<Workflow(<<NodeSet, NodeBare, NodeOld>>), WorkflowNoNodes,
           Workflow(<<NodeUpper, NodeNoId, NodeEmptyId, NodeNoType>>)>>)

\* A document whose second node makes line 59 raise
NullParamsDoc == Workflow(<<NodeBare, NodeNullParams>>)

\* What an earlier run, or anything else, may have left at the output path
StaleContent == JsonText(Workflow(<<NodeSet>>), 2)

SmallContents ==
    {Garbage, JsonText(TourDoc, 0), JsonText(TourDoc, 2), JsonText(Number, 0),
     JsonText(NullParamsDoc, 0)}

EmptyMap == <<>>

\* The files on disk: `content` at the workflow path (unless that is the
\* missing one or the directory), and a stale output file if `stale`
FilesOnDisk(wfArg, content, stale, slug) ==
    (IF wfArg \in {MissingPath, JsDirPath} THEN EmptyMap ELSE (wfArg :> content))
    @@ (IF stale THEN (OutPath(slug) :> StaleContent) ELSE EmptyMap)

\* The directories on disk: the JS directory, and tmp if it holds a file
DirsOnDisk(listing, files, slug) ==
    (JsDirPath :> listing)
    @@ (IF OutPath(slug) \in DOMAIN files
        THEN (TmpDir :> <<OutName(slug)>>) ELSE EmptyMap)

ArgvOfShape(shape, wfArg, jsArg, slug) ==
    CASE shape = 1 -> ProgName
      [] shape = 3 -> ProgName \o <<wfArg, jsArg>>
      [] shape = 4 -> ProgName \o <<wfArg, jsArg, slug>>
      [] OTHER -> ProgName \o <<wfArg, jsArg, slug, <<"extra">>>>

\* The state of a process that has just started
Start(a, files, directories) ==
    /\ argv = a
    /\ fs = files
    /\ dirs = directories
    /\ pc = "args"
    /\ run = 1
    /\ wf_path = NoValue
    /\ js_dir = NoValue
    /\ workflow_slug = NoValue
    /\ mapping = EmptyMap
    /\ data = NoValue
    /\ wi = 0
    /\ ni = 0
    /\ total_patched = 0
    /\ total_skipped = 0
    /\ stdout = <<>>
    /\ stderr = <<>>
    /\ exit_code = <<>>
    /\ opened = {}
    /\ fs0 = files
    /\ dirs0 = directories
    /\ prev = NoValue

\* Invocations of every shape, over small documents and directories
InitSmall ==
    \E slug \in Slugs, shape \in {1, 3, 4, 5}, jsArg \in {JsDirPath, MissingDir},
       content \in SmallContents, stale \in BOOLEAN,
       listing \in {<<>>, <<FileReadme>>, <<FileA>>} :
        \E wfArg \in {PlainPath, MissingPath, JsDirPath, OutPath(slug)} :
            LET files == FilesOnDisk(wfArg, content, stale, slug)
            IN  Start(ArgvOfShape(shape, wfArg, jsArg, slug), files,
                      DirsOnDisk(listing, files, slug))

\* Well-formed invocations over every document within the bounds
InitDocs ==
    \E doc \in Docs, listing \in {<<FileA, FileB>>, <<FileUpper, FileA>>} :
        LET slug == <<"s">>
            files == FilesOnDisk(PlainPath, JsonText(doc, 0), FALSE, slug)
        IN  Start(ArgvOfShape(4, PlainPath, JsDirPath, slug), files,
                  DirsOnDisk(listing, files, slug))

\* Well-formed invocations over every directory listing within the bounds
InitListings ==
    \E listing \in DistinctSeqs(FileNames, MaxFiles) :
        LET slug == <<"s">>
            files == FilesOnDisk(PlainPath, JsonText(TourDoc, 0), FALSE, slug)
        IN  Start(ArgvOfShape(4, PlainPath, JsDirPath, slug), files,
                  DirsOnDisk(listing, files, slug))

Init == InitSmall \/ InitDocs

InitMap == InitSmall \/ InitListings

----------------------------------------------------------------------------
(* The script, stage by stage *)

Line(msg, arg) == [msg |-> msg, arg |-> arg]

\* lines 4-6: die(msg)
Die(msg, arg) ==
    /\ stderr' = Append(stderr, Line(msg, arg))
    /\ exit_code' = <<1>>
    /\ pc' = "exited"

\* What the interpreter prints for an exception nobody catches: the
\* traceback header, the frame, and the exception
Traceback(where, exc) ==
    <<Line("Traceback (most recent call last):", <<>>),
      Line("  File patch_workflow_use_external_js.py, in <module>, line", <<where>>),
      Line(exc, <<>>)>>

\* An exception the script does not catch ends the process with status 1.
Raise(where, exc) ==
    /\ stderr' = stderr \o Traceback(where, exc)
    /\ exit_code' = <<1>>
    /\ pc' = "exited"

\* os.path.exists
PathExists(p) == p \in DOMAIN fs \cup DOMAIN dirs

\* os.path.isdir
IsDir(p) == p \in DOMAIN dirs

\* lines 8-9
UsageError ==
    /\ pc = "args"
    /\ Len(argv) # ArgCount
    /\ Die("Usage: patch_workflow_use_external_js.py <workflow_json> <js_dir> <workflow_slug>",
           <<>>)
    /\ UNCHANGED <<argv, fs, dirs, run, wf_path, js_dir, workflow_slug, mapping,
                   data, wi, ni, total_patched, total_skipped, stdout, opened,
                   fs0, dirs0, prev>>

\* lines 8, 11
ReadArgs ==
    /\ pc = "args"
    /\ Len(argv) = ArgCount
    /\ wf_path' = argv[2]
    /\ js_dir' = argv[3]
    /\ workflow_slug' = argv[4]
    /\ pc' = "check_wf"
    /\ UNCHANGED <<argv, fs, dirs, run, mapping, data, wi, ni, total_patched,
                   total_skipped, stdout, stderr, exit_code, opened, fs0, dirs0,
                   prev>>

\* lines 13-14
MissingWorkflow ==
    /\ pc = "check_wf"
    /\ ~PathExists(wf_path)
    /\ Die("Missing workflow json: ", wf_path)
    /\ UNCHANGED <<argv, fs, dirs, run, wf_path, js_dir, workflow_slug, mapping,
                   data, wi, ni, total_patched, total_skipped, stdout, opened,
                   fs0, dirs0, prev>>

\* line 13
WorkflowExists ==
    /\ pc = "check_wf"
    /\ PathExists(wf_path)
    /\ pc' = "check_js"
    /\ UNCHANGED <<argv, fs, dirs, run, wf_path, js_dir, workflow_slug, mapping,
                   data, wi, ni, total_patched, total_skipped, stdout, stderr,
                   exit_code, opened, fs0, dirs0, prev>>

\* lines 15-16
MissingJsDir ==
    /\ pc = "check_js"
    /\ ~IsDir(js_dir)
    /\ Die("Missing js dir: ", js_dir)
    /\ UNCHANGED <<argv, fs, dirs, run, wf_path, js_dir, workflow_slug, mapping,
                   data, wi, ni, total_patched, total_skipped, stdout, opened,
                   fs0, dirs0, prev>>

\* JsDirExists changed: the script goes on without the isdir check.
JsDirUnchecked ==
    /\ pc = "check_js"
    /\ pc' = "map"
    /\ UNCHANGED <<argv, fs, dirs, run, wf_path, js_dir, workflow_slug, mapping,
                   data, wi, ni, total_patched, total_skipped, stdout, stderr,
                   exit_code, opened, fs0, dirs0, prev>>

\* line 15
JsDirExists ==
    /\ pc = "check_js"
    /\ IsDir(js_dir)
    /\ pc' = "map"
    /\ UNCHANGED <<argv, fs, dirs, run, wf_path, js_dir, workflow_slug, mapping,
                   data, wi, ni, total_patched, total_skipped, stdout, stderr,
                   exit_code, opened, fs0, dirs0, prev>>

\* lines 19-26
ScanJsDir ==
    /\ pc = "map"
    /\ mapping' = BuildMapping(GlobStarJs(js_dir), EmptyMap)
    /\ pc' = "check_map"
    /\ UNCHANGED <<argv, fs, dirs, run, wf_path, js_dir, workflow_slug, data, wi,
                   ni, total_patched, total_skipped, stdout, stderr, exit_code,
                   opened, fs0, dirs0, prev>>

\* EmptyMapping changed: the message is printed and the script goes on.
EmptyMappingWarns ==
    /\ pc = "check_map"
    /\ DOMAIN mapping = {}
    /\ stderr' = Append(stderr, Line("No node-id mapped js files found in ", js_dir))
    /\ pc' = "load"
    /\ UNCHANGED <<argv, fs, dirs, run, wf_path, js_dir, workflow_slug, mapping,
                   data, wi, ni, total_patched, total_skipped, stdout, exit_code,
                   opened, fs0, dirs0, prev>>

\* lines 28-29
EmptyMapping ==
    /\ pc = "check_map"
    /\ DOMAIN mapping = {}
    /\ Die("No node-id mapped js files found in ", js_dir)
    /\ UNCHANGED <<argv, fs, dirs, run, wf_path, js_dir, workflow_slug, mapping,
                   data, wi, ni, total_patched, total_skipped, stdout, opened,
                   fs0, dirs0, prev>>

\* line 28
MappingFound ==
    /\ pc = "check_map"
    /\ DOMAIN mapping # {}
    /\ pc' = "load"
    /\ UNCHANGED <<argv, fs, dirs, run, wf_path, js_dir, workflow_slug, mapping,
                   data, wi, ni, total_patched, total_skipped, stdout, stderr,
                   exit_code, opened, fs0, dirs0, prev>>

\* lines 31-32 raising, which nothing catches: open() of a directory, or
\* json.load of a text that is no JSON
LoadRaises ==
    /\ pc = "load"
    /\ (wf_path \in DOMAIN fs) => ~IsJson(fs[wf_path])
    /\ opened' = opened \cup {<<wf_path, "r">>}
    /\ IF wf_path \in DOMAIN fs
       THEN Raise(32, "json.decoder.JSONDecodeError")
       ELSE Raise(31, "IsADirectoryError")
    /\ UNCHANGED <<argv, fs, dirs, run, wf_path, js_dir, workflow_slug, mapping,
                   data, wi, ni, total_patched, total_skipped, stdout, fs0,
                   dirs0, prev>>

\* lines 31-38
LoadDocument ==
    /\ pc = "load"
    /\ wf_path \in DOMAIN fs
    /\ IsJson(fs[wf_path])
    /\ opened' = opened \cup {<<wf_path, "r">>}
    /\ data' = JsonLoad(fs[wf_path])
    /\ total_patched' = 0
    /\ total_skipped' = 0
    /\ wi' = 1
    /\ ni' = 1
    /\ pc' = "patch"
    /\ UNCHANGED <<argv, fs, dirs, run, wf_path, js_dir, workflow_slug, mapping,
                   stdout, stderr, exit_code, fs0, dirs0, prev>>

\* The workflow and the node the loop is at
CurWorkflow == Workflows(data)[wi]
CurNode == Nodes(CurWorkflow)[ni]

InLoop == pc = "patch" /\ wi <= Len(Workflows(data))
AtNode == InLoop /\ HasGet(CurWorkflow) /\ ni <= Len(Nodes(CurWorkflow))

\* line 41 raising: wf is no dict
WorkflowRaises ==
    /\ InLoop
    /\ ~HasGet(CurWorkflow)
    /\ Raise(41, "AttributeError")
    /\ UNCHANGED <<argv, fs, dirs, run, wf_path, js_dir, workflow_slug, mapping,
                   data, wi, ni, total_patched, total_skipped, stdout, opened,
                   fs0, dirs0, prev>>

\* lines 40-42: the nodes of this workflow are exhausted
NextWorkflow ==
    /\ InLoop
    /\ HasGet(CurWorkflow)
    /\ ni > Len(Nodes(CurWorkflow))
    /\ wi' = wi + 1
    /\ ni' = 1
    /\ UNCHANGED <<argv, fs, dirs, pc, run, wf_path, js_dir, workflow_slug,
                   mapping, data, total_patched, total_skipped, stdout, stderr,
                   exit_code, opened, fs0, dirs0, prev>>

\* lines 43-44
SkipOtherType ==
    /\ AtNode
    /\ ~IsCodeNode(CurNode)
    /\ ni' = ni + 1
    /\ UNCHANGED <<argv, fs, dirs, pc, run, wf_path, js_dir, workflow_slug,
                   mapping, data, wi, total_patched, total_skipped, stdout,
                   stderr, exit_code, opened, fs0, dirs0, prev>>

\* SkipNoId changed: the node is passed without being counted.
SkipNoIdUncounted ==
    /\ AtNode
    /\ IsCodeNode(CurNode)
    /\ NoId(CurNode)
    /\ ni' = ni + 1
    /\ UNCHANGED <<argv, fs, dirs, pc, run, wf_path, js_dir, workflow_slug,
                   mapping, data, wi, total_patched, total_skipped, stdout,
                   stderr, exit_code, opened, fs0, dirs0, prev>>

\* lines 45-48
SkipNoId ==
    /\ AtNode
    /\ IsCodeNode(CurNode)
    /\ NoId(CurNode)
    /\ total_skipped' = total_skipped + 1
    /\ ni' = ni + 1
    /\ UNCHANGED <<argv, fs, dirs, pc, run, wf_path, js_dir, workflow_slug,
                   mapping, data, wi, total_patched, stdout, stderr, exit_code,
                   opened, fs0, dirs0, prev>>

\* lines 49-52
SkipUnmapped ==
    /\ AtNode
    /\ IsCodeNode(CurNode)
    /\ ~NoId(CurNode)
    /\ NoFile(mapping, CurNode.id)
    /\ total_skipped' = total_skipped + 1
    /\ ni' = ni + 1
    /\ UNCHANGED <<argv, fs, dirs, pc, run, wf_path, js_dir, workflow_slug,
                   mapping, data, wi, total_patched, stdout, stderr, exit_code,
                   opened, fs0, dirs0, prev>>

Mapped(n) == IsCodeNode(n) /\ ~NoId(n) /\ ~NoFile(mapping, n.id)

\* lines 54-60
PatchNode ==
    /\ AtNode
    /\ Mapped(CurNode)
    /\ ~SetCodeRaises(CurNode)
    /\ data' = ReplaceNode(data, wi, ni,
                 SetCode(CurNode, Wrapper(workflow_slug, mapping[CurNode.id])))
    /\ total_patched' = total_patched + 1
    /\ ni' = ni + 1
    /\ UNCHANGED <<argv, fs, dirs, pc, run, wf_path, js_dir, workflow_slug,
                   mapping, wi, total_skipped, stdout, stderr, exit_code, opened,
                   fs0, dirs0, prev>>

\* line 59 raising: "parameters" holds no dict
PatchRaises ==
    /\ AtNode
    /\ Mapped(CurNode)
    /\ SetCodeRaises(CurNode)
    /\ Raise(59, "TypeError")
    /\ UNCHANGED <<argv, fs, dirs, run, wf_path, js_dir, workflow_slug, mapping,
                   data, wi, ni, total_patched, total_skipped, stdout, opened,
                   fs0, dirs0, prev>>

\* os.makedirs("tmp", exist_ok=True), then open(out_path, "w"): the
\* directories afterwards
DirsAfterWrite(ds, files, name) ==
    IF TmpDir \notin DOMAIN ds THEN DictSet(ds, TmpDir, <<name>>)
    ELSE IF PathJoin(TmpDir, name) \in DOMAIN files THEN ds
    ELSE DictSet(ds, TmpDir, Append(ds[TmpDir], name))

\* WriteOutput changed: the normalized list is written (json.dump(workflows)).
WriteOutputOfWorkflows ==
    /\ pc = "patch"
    /\ wi > Len(Workflows(data))
    /\ dirs' = DirsAfterWrite(dirs, fs, OutName(workflow_slug))
    /\ fs' = DictSet(fs, OutPath(workflow_slug), JsonDump(List(Workflows(data))))
    /\ opened' = opened \cup {<<OutPath(workflow_slug), "w">>}
    /\ pc' = "report"
    /\ UNCHANGED <<argv, run, wf_path, js_dir, workflow_slug, mapping, data, wi,
                   ni, total_patched, total_skipped, stdout, stderr, exit_code,
                   fs0, dirs0, prev>>

\* lines 62-65, reached when the loop of line 40 is exhausted
WriteOutput ==
    /\ pc = "patch"
    /\ wi > Len(Workflows(data))
    /\ dirs' = DirsAfterWrite(dirs, fs, OutName(workflow_slug))
    /\ fs' = DictSet(fs, OutPath(workflow_slug), JsonDump(data))
    /\ opened' = opened \cup {<<OutPath(workflow_slug), "w">>}
    /\ pc' = "report"
    /\ UNCHANGED <<argv, run, wf_path, js_dir, workflow_slug, mapping, data, wi,
                   ni, total_patched, total_skipped, stdout, stderr, exit_code,
                   fs0, dirs0, prev>>

\* lines 67-68, and the end of the script
Report ==
    /\ pc = "report"
    /\ stdout' = stdout \o
         <<[msg |-> "Patched code nodes: , skipped: ",
            arg |-> <<total_patched, total_skipped>>],
           [msg |-> "Wrote: ", arg |-> OutPath(workflow_slug)]>>
    /\ exit_code' = <<0>>
    /\ pc' = "done"
    /\ UNCHANGED <<argv, fs, dirs, run, wf_path, js_dir, workflow_slug, mapping,
                   data, wi, ni, total_patched, total_skipped, stderr, opened,
                   fs0, dirs0, prev>>

\* The tool is run again on the file it wrote, with the same JS directory
\* and the same slug: a new process, over the disk as the first one left it.
RunOnOwnOutput ==
    /\ pc = "done"
    /\ run = 1
    /\ run' = 2
    /\ argv' = ProgName \o <<OutPath(workflow_slug), js_dir, workflow_slug>>
    /\ prev' = [out |-> fs[OutPath(workflow_slug)], patched |-> total_patched,
                skipped |-> total_skipped]
    /\ fs0' = fs
    /\ dirs0' = dirs
    /\ pc' = "args"
    /\ wf_path' = NoValue
    /\ js_dir' = NoValue
    /\ workflow_slug' = NoValue
    /\ mapping' = EmptyMap
    /\ data' = NoValue
    /\ wi' = 0
    /\ ni' = 0
    /\ total_patched' = 0
    /\ total_skipped' = 0
    /\ stdout' = <<>>
    /\ stderr' = <<>>
    /\ exit_code' = <<>>
    /\ opened' = {}
    /\ UNCHANGED <<fs, dirs>>

Next ==
    \/ UsageError
    \/ ReadArgs
    \/ MissingWorkflow
    \/ WorkflowExists
    \/ MissingJsDir
    \/ JsDirExists
    \/ ScanJsDir
    \/ EmptyMapping
    \/ MappingFound
    \/ LoadRaises
    \/ LoadDocument
    \/ WorkflowRaises
    \/ NextWorkflow
    \/ SkipOtherType
    \/ SkipNoId
    \/ SkipUnmapped
    \/ PatchNode
    \/ PatchRaises
    \/ WriteOutput
    \/ Report
    \/ RunOnOwnOutput

Spec == Init /\ [][Next]_vars

SpecMap == InitMap /\ [][Next]_vars

----------------------------------------------------------------------------
(* Vocabulary of the properties *)

\* The process has written the output file: it ran to the end successfully.
Written == pc \in {"report", "done"}

\* The document in the workflow file as the invocation found it, and the
\* document in the output file
InputDoc == JsonLoad(fs0[argv[2]])
OutputDoc == JsonLoad(fs[OutPath(argv[4])])

\* Where the nodes of a document are: <<workflow index, node index>>
NodePositions(d) ==
    UNION {{<<i, j>> : j \in 1..Len(Nodes(Workflows(d)[i]))} :
           i \in 1..Len(Workflows(d))}

NodeAt(d, p) == Nodes(Workflows(d)[p[1]])[p[2]]

TypeIsCode(n) == "type" \in DOMAIN n /\ n.type = "n8n-nodes-base.code"

\* The node is of the code type and its id is a key of the file mapping
Eligible(n) == TypeIsCode(n) /\ "id" \in DOMAIN n /\ n.id \in DOMAIN mapping

\* The loop is moving past the node it is at
PassesNode == pc = "patch" /\ pc' = "patch" /\ wi' = wi /\ ni' = ni + 1

----------------------------------------------------------------------------
(* C1 *)

\* C1: while the loop passes a node of the code type exactly one of
\* total_patched and total_skipped grows, by one; no other step of the pass
\* changes either counter; and once the run has succeeded their sum is the
\* number of code-type nodes of the input document, over all its workflows.
C1_CountersCountCodeNodes ==
    [][/\ PassesNode /\ TypeIsCode(CurNode) =>
            \/ total_patched' = total_patched + 1 /\ total_skipped' = total_skipped
            \/ total_patched' = total_patched /\ total_skipped' = total_skipped + 1
       /\ pc = "patch" /\ ~(PassesNode /\ TypeIsCode(CurNode)) =>
            total_patched' = total_patched /\ total_skipped' = total_skipped
       /\ Written' =>
            total_patched' + total_skipped' =
                Cardinality({p \in NodePositions(InputDoc') :
                                TypeIsCode(NodeAt(InputDoc', p))})]_vars

\* A run has succeeded over several workflows having patched a node, skipped
\* a code node and passed a node of another type.
C1_Witness ==
    /\ pc = "done"
    /\ Len(Workflows(InputDoc)) >= 2
    /\ total_patched >= 1
    /\ total_skipped >= 1
    /\ \E p \in NodePositions(InputDoc) : ~TypeIsCode(NodeAt(InputDoc, p))

----------------------------------------------------------------------------
(* C2 *)

\* C2: once the run has succeeded, every node of the input that is of the
\* code type and whose id is a key of the mapping holds, in the output
\* document, parameters.jsCode equal to the wrapper made of the slug given
\* on the command line and the file name mapped to its id, whatever the field
\* held and whether or not the node had parameters; and total_patched counts
\* exactly these nodes.
C2_MappedNodesGetWrapper ==
    Written =>
        /\ \A p \in NodePositions(InputDoc) :
             Eligible(NodeAt(InputDoc, p)) =>
                /\ p \in NodePositions(OutputDoc)
                /\ "parameters" \in DOMAIN NodeAt(OutputDoc, p)
                /\ "jsCode" \in DOMAIN NodeAt(OutputDoc, p).parameters
                /\ NodeAt(OutputDoc, p).parameters.jsCode =
                       Wrapper(argv[4], mapping[NodeAt(InputDoc, p).id])
        /\ total_patched =
             Cardinality({p \in NodePositions(InputDoc) :
                             Eligible(NodeAt(InputDoc, p))})

\* A run has succeeded over a mapped code node without parameters and
\* another whose code field held something else.
C2_Witness ==
    /\ pc = "done"
    /\ \E p \in NodePositions(InputDoc) :
         Eligible(NodeAt(InputDoc, p)) /\ "parameters" \notin DOMAIN NodeAt(InputDoc, p)
    /\ \E p \in NodePositions(InputDoc) :
         /\ Eligible(NodeAt(InputDoc, p))
         /\ "parameters" \in DOMAIN NodeAt(InputDoc, p)
         /\ "jsCode" \in DOMAIN NodeAt(InputDoc, p).parameters

----------------------------------------------------------------------------
(* C3 *)

\* What identifies a node: its name and its id
Identity(n) == <<Get(n, "name"), Get(n, "id")>>

\* C3: once the run has succeeded, the output document has the root kind of
\* the input (object or array), as many workflows, and in each workflow a
\* "nodes" member exactly if the input has one, with as many nodes, of the
\* same identities in the same order.
C3_ShapePreserved ==
    Written =>
        /\ OutputDoc.kind = InputDoc.kind
        /\ Len(Workflows(OutputDoc)) = Len(Workflows(InputDoc))
        /\ \A i \in 1..Len(Workflows(InputDoc)) :
             LET win == Workflows(InputDoc)[i]
                 wout == Workflows(OutputDoc)[i]
             IN  /\ wout.kind = win.kind
                 /\ ("nodes" \in DOMAIN wout.value) = ("nodes" \in DOMAIN win.value)
                 /\ Len(Nodes(wout)) = Len(Nodes(win))
                 /\ \A j \in 1..Len(Nodes(win)) :
                      Identity(Nodes(wout)[j]) = Identity(Nodes(win)[j])

\* A run has succeeded on an array of several workflows and patched a node.
C3_Witness ==
    /\ pc = "done"
    /\ InputDoc.kind = "list"
    /\ Len(Workflows(InputDoc)) >= 2
    /\ \E i \in 1..Len(Workflows(InputDoc)) : Len(Nodes(Workflows(InputDoc)[i])) >= 2
    /\ total_patched >= 1

----------------------------------------------------------------------------
(* C4 *)

\* The members of a dict other than the one under `key`
Others(d, key) == [k \in DOMAIN d \ {key} |-> d[k]]

\* The members of the "parameters" of a node other than the code field; a
\* node without parameters has none.
OtherParameters(n) ==
    IF "parameters" \in DOMAIN n THEN Others(n.parameters, "jsCode") ELSE EmptyMap

\* C4: once the run has succeeded, every member of every workflow other than
\* its nodes is as in the input; every node that is not of the code type, or
\* is of it with no id, an empty id or an id that is no key of the mapping,
\* is in the output what it is in the input, code field included; and every
\* other node differs from the input at most in parameters.jsCode: its other
\* members and the other members of its parameters are the same.
C4_OnlyCodeFieldChanges ==
    Written =>
        /\ \A i \in 1..Len(Workflows(InputDoc)) :
             Others(Workflows(OutputDoc)[i].value, "nodes") =
                 Others(Workflows(InputDoc)[i].value, "nodes")
        /\ \A p \in NodePositions(InputDoc) :
             LET nin == NodeAt(InputDoc, p)
                 nout == NodeAt(OutputDoc, p)
             IN  IF Eligible(nin)
                 THEN /\ Others(nout, "parameters") = Others(nin, "parameters")
                      /\ OtherParameters(nout) = OtherParameters(nin)
                 ELSE nout = nin

\* A run has succeeded over a patched node whose parameters hold another
\* member, a skipped code node that has a code field, and a node of another
\* type that has one.
C4_Witness ==
    /\ pc = "done"
    /\ \E p \in NodePositions(InputDoc) :
         Eligible(NodeAt(InputDoc, p)) /\ OtherParameters(NodeAt(InputDoc, p)) # EmptyMap
    /\ \E p \in NodePositions(InputDoc) :
         LET n == NodeAt(InputDoc, p)
         IN  TypeIsCode(n) /\ ~Eligible(n) /\ "jsCode" \in DOMAIN n.parameters
    /\ \E p \in NodePositions(InputDoc) :
         LET n == NodeAt(InputDoc, p)
         IN  ~TypeIsCode(n) /\ "jsCode" \in DOMAIN n.parameters

----------------------------------------------------------------------------
(* The fatal conditions, told from the command line and the disk as the
   invocation found it *)

WrongArgCount == Len(argv) # 4

WorkflowFileMissing == argv[2] \notin DOMAIN fs0 \cup DOMAIN dirs0

JsDirMissing == argv[3] \notin DOMAIN dirs0

\* The name ends with two underscores, 36 hexadecimal digits or hyphens,
\* and ".js"; the token is what stands between.
UuidSuffixed(name) ==
    /\ Len(name) >= 41
    /\ SubSeq(name, Len(name) - 2, Len(name)) = <<".", "j", "s">>
    /\ \A i \in (Len(name) - 38)..(Len(name) - 3) : name[i] \in HexOrHyphen
    /\ SubSeq(name, Len(name) - 40, Len(name) - 39) = <<"_", "_">>

TokenOf(name) == SubSeq(name, Len(name) - 38, Len(name) - 3)

NoUuidFile ==
    /\ argv[3] \in DOMAIN dirs0
    /\ \A i \in 1..Len(dirs0[argv[3]]) : ~UuidSuffixed(dirs0[argv[3]][i])

MalformedJson == argv[2] \in DOMAIN fs0 /\ fs0[argv[2]].kind # "json"

FatalCondition ==
    \/ WrongArgCount
    \/ ~WrongArgCount /\ (WorkflowFileMissing \/ JsDirMissing)
    \/ ~WrongArgCount /\ NoUuidFile
    \/ ~WrongArgCount /\ MalformedJson

----------------------------------------------------------------------------
(* C5 *)

\* C5: a process that has ended under one of the four fatal conditions
\* (wrong argument count, missing workflow file or JS directory, no
\* UUID-named JS file, malformed workflow JSON) has printed one line to the
\* error stream and has a non-zero exit status.
C5_FatalErrorsPrintOneLine ==
    (pc = "exited" /\ FatalCondition) =>
        /\ Len(stderr) = 1
        /\ exit_code # <<>>
        /\ exit_code # <<0>>

----------------------------------------------------------------------------
(* C6 *)

----------------------------------------------------------------------------
(* C7 *)

\* C7: when the tool, run again on the file it wrote with the same JS
\* directory and the same slug, has succeeded, the output file holds what
\* the first run wrote, and total_patched and total_skipped are those of the
\* first run.
C7_Idempotent ==
    (run = 2 /\ pc = "done") =>
        /\ fs[OutPath(argv[4])] = prev.out
        /\ total_patched = prev.patched
        /\ total_skipped = prev.skipped

\* The second run has succeeded, having patched nodes that the first run had
\* patched and skipped a code node.
C7_Witness ==
    /\ run = 2
    /\ pc = "done"
    /\ total_patched >= 2
    /\ total_skipped >= 1

----------------------------------------------------------------------------
(* C8 *)

\* C8: throughout a run, the workflow file named on the command line holds
\* what it held when the run started, whatever the three arguments are.
C8_WorkflowFileUntouched ==
    (~WrongArgCount /\ argv[2] \in DOMAIN fs0) =>
        /\ argv[2] \in DOMAIN fs
        /\ fs[argv[2]] = fs0[argv[2]]

----------------------------------------------------------------------------
(* C9 *)

\* The mapping builder has run.
MappingBuilt == pc \in {"check_map", "load", "patch", "report", "done"}

\* The listing of the JS directory given on the command line
Listing == dirs0[argv[3]]

\* glob leaves out the entries whose name starts with a dot.
Visible(name) == name # <<>> /\ name[1] # "."

\* The tokens to ask about: the keys of the mapping, and what stands where
\* the token would in every name of the listing
TokensToAsk ==
    DOMAIN mapping \cup
    {TokenOf(Listing[i]) : i \in {k \in 1..Len(Listing) : Len(Listing[k]) >= 41}}

SetMax(S) == CHOOSE x \in S : \A y \in S : y <= x

\* Where the listing holds a name of the form <anything>__u.js
PlacesOf(u) ==
    {i \in 1..Len(Listing) : UuidSuffixed(Listing[i]) /\ TokenOf(Listing[i]) = u}

VisiblePlacesOf(u) == {i \in PlacesOf(u) : Visible(Listing[i])}

----------------------------------------------------------------------------
(* C10 *)

\* The stages in the order of the script; the write is the step into
\* "report".
StageNo(p) ==
    CASE p = "args" -> 1
      [] p = "check_wf" -> 2
      [] p = "check_js" -> 3
      [] p = "map" -> 4
      [] p = "check_map" -> 5
      [] p = "load" -> 6
      [] p = "patch" -> 7
      [] p = "report" -> 8
      [] p = "done" -> 9
      [] p = "exited" -> 10

NoMappableFile ==
    /\ argv[3] \in DOMAIN dirs0
    /\ \A i \in 1..Len(Listing) : ~(UuidSuffixed(Listing[i]) /\ Visible(Listing[i]))

\* A fatal condition of a stage before the JSON parse holds.
FailsBeforeLoad ==
    \/ WrongArgCount
    \/ ~WrongArgCount /\ (WorkflowFileMissing \/ JsDirMissing)
    \/ ~WrongArgCount /\ NoMappableFile

\* What the error stream holds when the earliest failing stage has reported:
\* its line, or the one traceback of a later stage
ReportsEarliestFailure ==
    IF WrongArgCount
    THEN stderr = <<Line("Usage: patch_workflow_use_external_js.py <workflow_json> <js_dir> <workflow_slug>", <<>>)>>
    ELSE IF WorkflowFileMissing
    THEN stderr = <<Line("Missing workflow json: ", argv[2])>>
    ELSE IF JsDirMissing
    THEN stderr = <<Line("Missing js dir: ", argv[3])>>
    ELSE IF NoMappableFile
    THEN stderr = <<Line("No node-id mapped js files found in ", argv[3])>>
    ELSE /\ Len(stderr) = 3
         /\ stderr[1].msg = "Traceback (most recent call last):"
         /\ \A i \in 2..3 : stderr[i].msg # "Traceback (most recent call last):"

\* C10: within an invocation every step stays in its stage or goes to the
\* next one (argument check, workflow-file check, JS-directory check, mapping
\* build, mapping check, JSON parse, patch pass, write, report) or ends the
\* process; a process that has ended in error has reported one diagnostic,
\* that of the earliest stage that fails, and has opened no file if that
\* stage comes before the JSON parse; and the summary is printed only by a
\* process that has written the output file.
C10_StagesInFixedOrder ==
    [][/\ run' = run =>
            StageNo(pc') \in {StageNo(pc), StageNo(pc) + 1, StageNo("exited")}
       /\ (run' = run /\ StageNo(pc') = StageNo(pc)) => pc = "patch"
       /\ pc' = "exited" =>
            /\ pc # "done"
            /\ ReportsEarliestFailure'
            /\ FailsBeforeLoad' => opened' = {}
       /\ stdout' # <<>> =>
            /\ pc' = "done"
            /\ <<OutPath(argv'[4]), "w">> \in opened'
            /\ fs'[OutPath(argv'[4])] = JsonDump(data')]_vars

\* A process has ended on the mapping check although the workflow file
\* holds no JSON either, without having opened it.
C10_Witness ==
    /\ pc = "exited"
    /\ ~WrongArgCount
    /\ ~WorkflowFileMissing
    /\ NoMappableFile
    /\ MalformedJson
    /\ opened = {}
    /\ Len(stderr) = 1

====
